---- MODULE Spec2Model ----
(***************************************************************************)
(* The local disk cache (app/services/cache.py) that fronts the remote     *)
(* object store, and the two download handlers of app/routers/pdf.py that  *)
(* use it.  Every filesystem call of the code is one step of a thread, so  *)
(* that two requests can interleave exactly where the code lets them.      *)
(***************************************************************************)
EXTENDS Integers, Sequences, FiniteSets, TLC

VARIABLES
  files,   \* the cache directory: cache file path -> file (content, mtime)
  now,     \* the wall clock read by time.time() and by the filesystem
  th,      \* per thread: position in the code and the locals of its frames
  last,    \* the operation that completed most recently
  calls    \* the completed put calls, in order (kept by StoreSpec only)

vars == <<files, now, th, last, calls>>

-----------------------------------------------------------------------------
(* Bounds of the model.  The configuration (cache_max_size_mb,             *)
(* cache_ttl_seconds) is scaled down to a few bytes and a few clock ticks. *)

max_size_bytes == 3
ttl_seconds == 1
MaxTime == 3
MaxCalls == 3

Procs == {1, 2}

-----------------------------------------------------------------------------
(* Payloads, logical keys and cache file paths.                            *)

Payloads == {<<>>, <<1>>, <<2, 2>>, <<5, 5>>, <<4, 4, 4, 4>>}

\* f"{processing_id}/original.pdf" and f"{processing_id}/first_page.png"
PdfPath(processing_id) == <<processing_id, "original.pdf">>
PngPath(processing_id) == <<processing_id, "first_page.png">>

\* hashlib.md5(file_path.encode()).hexdigest(): one digest per path
get_cache_key(file_path) == <<"md5", file_path>>

\* a bug the isolation claim detects: the extension is left out of the path
get_cache_file_path_no_ext(cache_key, extension) == <<cache_key, "">>

\* self.cache_dir / f"{cache_key}{extension}"
get_cache_file_path(cache_key, extension) == <<cache_key, extension>>

CacheFile(file_path, extension) ==
  get_cache_file_path(get_cache_key(file_path), extension)

\* the (file_path, extension) pairs the requests of the model use
PdfReq(processing_id) == <<PdfPath(processing_id), ".pdf">>
PngReq(processing_id) == <<PngPath(processing_id), ".png">>
Requests == {PdfReq("d1"), PngReq("d1"), PdfReq("d2")}

LocOrder == <<CacheFile(PdfPath("d1"), ".pdf"),
              CacheFile(PngPath("d1"), ".png"),
              CacheFile(PdfPath("d2"), ".pdf"),
              CacheFile(PdfPath("d1"), "")>>
Locs == {LocOrder[i] : i \in 1..Len(LocOrder)}

NoFile == [exists |-> FALSE, content |-> <<>>, mtime |-> 0]

-----------------------------------------------------------------------------
(* Filesystem primitives.                                                  *)

\* Path.exists() / Path.is_file(): False when the path is gone
is_file(fs, f) == fs[f].exists

\* Path.stat().st_size
st_size(fs, f) == Len(fs[f].content)

\* self.cache_dir.glob("*"): the directory listing
glob(fs) == SelectSeq(LocOrder, LAMBDA f : fs[f].exists)

\* a write of `chunk` at offset `off` of a file holding `content`
\* (a gap left by a truncation under the writer reads as zero bytes)
WriteAt(content, off, chunk) ==
  LET end == off + Len(chunk)
      n == IF Len(content) > end THEN Len(content) ELSE end
  IN [i \in 1..n |->
        IF i > off /\ i <= end THEN chunk[i - off]
        ELSE IF i <= Len(content) THEN content[i] ELSE 0]

RECURSIVE SumSizes(_, _)
SumSizes(fs, S) ==
  IF S = {} THEN 0
  ELSE LET f == CHOOSE x \in S : TRUE
       IN st_size(fs, f) + SumSizes(fs, S \ {f})

Resident(fs) == {f \in Locs : fs[f].exists}
TotalSize(fs) == SumSizes(fs, Resident(fs))

\* s lists every element of S once
IsPermOf(s, S) ==
  /\ Len(s) = Cardinality(S)
  /\ {s[i] : i \in 1..Len(s)} = S

\* a bug the eviction-order claim detects: the newest entries come first
SortedByMtimeDescending(fs, listing) ==
  LET S == {listing[i] : i \in 1..Len(listing)}
  IN {s \in [1..Len(listing) -> S] :
        /\ IsPermOf(s, S)
        /\ \A i \in 1..Len(s) - 1 : fs[s[i]].mtime >= fs[s[i + 1]].mtime}

\* a bug the eviction-order claim detects: the listing is not sorted
SortedByListing(fs, listing) == {listing}

\* sorted(glob("*"), key=lambda p: p.stat().st_mtime): every order of the
\* listing that ascends in mtime (the listing order decides between ties)
SortedByMtime(fs, listing) ==
  LET S == {listing[i] : i \in 1..Len(listing)}
  IN {s \in [1..Len(listing) -> S] :
        /\ IsPermOf(s, S)
        /\ \A i \in 1..Len(s) - 1 : fs[s[i]].mtime <= fs[s[i + 1]].mtime}

-----------------------------------------------------------------------------
(* Thread state.                                                           *)

NoOut == [res |-> "none", served |-> FALSE, seen |-> <<>>, torn |-> FALSE,
          total_files |-> 0, total_size |-> 0, exc |-> "none"]

Idle == [pc |-> "idle", op |-> "none", file_path |-> <<>>, extension |-> "",
         data |-> <<>>, scan |-> <<>>, acc |-> 0, current_size |-> 0,
         cache_files |-> <<>>, file_size |-> 0, off |-> 0, fd |-> FALSE,
         old |-> NoFile, evicted |-> 0, unlinked |-> {}, wrote |-> FALSE,
         file_age |-> -1, remote |-> "none", puts |-> 0, out |-> NoOut]

NoLast == [op |-> "none", file_path |-> <<>>, extension |-> "",
           data |-> <<>>, res |-> "none", served |-> FALSE, evicted |-> 0]

cache_file(t) == CacheFile(t.file_path, t.extension)

Init ==
  /\ files = [f \in Locs |-> NoFile]
  /\ now = 0
  /\ th = [p \in Procs |-> Idle]
  /\ last = NoLast
  /\ calls = <<>>

-----------------------------------------------------------------------------
(* How a call ends.                                                        *)

IsHandler(op) == op \in {"get_original_pdf", "get_preview_image"}

\* the thread at rest after its call ended with outcome o
Finished(t, o) ==
  [Idle EXCEPT !.pc = "done", !.op = t.op, !.file_path = t.file_path,
               !.extension = t.extension, !.data = t.data,
               !.evicted = t.evicted, !.unlinked = t.unlinked,
               !.wrote = t.wrote, !.file_age = t.file_age,
               !.remote = t.remote, !.puts = t.puts, !.out = o]

\* another thread is part-way through write_bytes on f, and f holds neither
\* the payload it replaced nor the payload being written
Torn(fs, ths, p, f) ==
  \E q \in Procs \ {p} :
    /\ ths[q].pc = "w_write"
    /\ ths[q].fd
    /\ cache_file(ths[q]) = f
    /\ fs[f].content # ths[q].data
    /\ ~(ths[q].old.exists /\ fs[f].content = ths[q].old.content)

\* a bug the write-failure claim detects: the handler answers not-found
RaiseAsNotFound(t, exc) ==
  IF IsHandler(t.op)
  THEN Finished(t, [NoOut EXCEPT !.res = "404", !.exc = exc])
  ELSE Finished(t, [NoOut EXCEPT !.res = "stored", !.exc = exc])

\* an exception leaves the cache call: a handler turns it into a 500
\* (pdf.py: except Exception), a direct caller receives it
Raise(t, exc) ==
  IF IsHandler(t.op)
  THEN Finished(t, [NoOut EXCEPT !.res = "500", !.exc = exc])
  ELSE Finished(t, [NoOut EXCEPT !.res = "raise", !.exc = exc])

\* a bug the hit claim detects: the handler ignores the hit and downloads
GetHitRefetch(fs, ths, p) ==
  IF IsHandler(ths[p].op)
  THEN [ths[p] EXCEPT !.pc = "download"]
  ELSE Finished(ths[p], [NoOut EXCEPT !.res = "hit",
                                      !.seen = fs[cache_file(ths[p])].content])

\* CacheService.get returns cache_file
GetHit(fs, ths, p) ==
  LET t == ths[p]
      f == cache_file(t)
      o == [NoOut EXCEPT !.seen = fs[f].content, !.torn = Torn(fs, ths, p, f)]
  IN IF IsHandler(t.op)
     THEN Finished(t, [o EXCEPT !.res = "200", !.served = TRUE])
     ELSE Finished(t, [o EXCEPT !.res = "hit"])

\* CacheService.get returns None
GetMiss(t) ==
  IF IsHandler(t.op)
  THEN [t EXCEPT !.pc = "download"]
  ELSE Finished(t, [NoOut EXCEPT !.res = "miss"])

\* CacheService.put returns cache_file
PutReturn(fs, t) ==
  LET o == [NoOut EXCEPT !.seen = fs[cache_file(t)].content]
  IN IF IsHandler(t.op)
     THEN Finished(t, [o EXCEPT !.res = "200", !.served = FALSE])
     ELSE Finished(t, [o EXCEPT !.res = "stored"])

\* a thread holding an open descriptor on f keeps writing to the unlinked
\* inode once f is removed from the directory
Orphan(t, f) ==
  IF t.pc = "w_write" /\ cache_file(t) = f THEN [t EXCEPT !.fd = FALSE] ELSE t

\* Path.unlink() of an existing f by thread p, which continues as t
Unlink(p, t, f) ==
  /\ files' = [files EXCEPT ![f] = NoFile]
  /\ th' = [q \in Procs |->
             IF q = p THEN [t EXCEPT !.unlinked = t.unlinked \cup {f}]
             ELSE Orphan(th[q], f)]

Step(p, t) == th' = [th EXCEPT ![p] = t]

-----------------------------------------------------------------------------
(* Calls arriving at an idle thread.                                       *)

CallGet(p, rq) ==
  /\ th[p].pc = "idle"
  /\ Step(p, [Idle EXCEPT !.pc = "get_exists", !.op = "get",
                          !.file_path = rq[1], !.extension = rq[2]])
  /\ UNCHANGED <<files, now, last, calls>>

CallPut(p, rq, d) ==
  /\ th[p].pc = "idle"
  /\ Step(p, [Idle EXCEPT !.pc = "size_glob", !.op = "put",
                          !.file_path = rq[1], !.extension = rq[2],
                          !.data = d, !.puts = 1])
  /\ UNCHANGED <<files, now, last, calls>>

CallClear(p) ==
  /\ th[p].pc = "idle"
  /\ Step(p, [Idle EXCEPT !.pc = "clear_glob", !.op = "clear"])
  /\ UNCHANGED <<files, now, last, calls>>

CallStats(p) ==
  /\ th[p].pc = "idle"
  /\ Step(p, [Idle EXCEPT !.pc = "size_glob", !.op = "get_stats"])
  /\ UNCHANGED <<files, now, last, calls>>

\* GET /files/{processing_id}/pdf
CallOriginalPdf(p, processing_id) ==
  /\ th[p].pc = "idle"
  /\ Step(p, [Idle EXCEPT !.pc = "get_exists", !.op = "get_original_pdf",
                          !.file_path = PdfPath(processing_id),
                          !.extension = ".pdf"])
  /\ UNCHANGED <<files, now, last, calls>>

\* GET /files/{processing_id}/preview
CallPreviewImage(p, processing_id) ==
  /\ th[p].pc = "idle"
  /\ Step(p, [Idle EXCEPT !.pc = "get_exists", !.op = "get_preview_image",
                          !.file_path = PngPath(processing_id),
                          !.extension = ".png"])
  /\ UNCHANGED <<files, now, last, calls>>

-----------------------------------------------------------------------------
(* CacheService.get                                                        *)

\* if not cache_file.exists(): return None
get_exists(p) ==
  LET t == th[p] IN
  /\ t.pc = "get_exists"
  /\ IF ~is_file(files, cache_file(t))
     THEN Step(p, GetMiss(t))
     ELSE Step(p, [t EXCEPT !.pc = "get_stat"])
  /\ UNCHANGED <<files, now, last, calls>>

\* a bug the TTL claim detects: the boundary age counted as expired
ExpiredAtTtl(file_age) == file_age >= ttl_seconds

\* file_age = time.time() - cache_file.stat().st_mtime
\* if file_age > self.ttl_seconds
Expired(file_age) == file_age > ttl_seconds

\* a bug the frame claim detects: a hit refreshes the entry's mtime
get_stat_touch(p) ==
  LET t == th[p]
      f == cache_file(t) IN
  /\ t.pc = "get_stat"
  /\ is_file(files, f)
  /\ LET file_age == now - files[f].mtime
         u == [t EXCEPT !.file_age = file_age]
     IN IF Expired(file_age)
        THEN Step(p, [u EXCEPT !.pc = "get_unlink"]) /\ UNCHANGED files
        ELSE /\ Step(p, GetHit(files, [th EXCEPT ![p] = u], p))
             /\ files' = [files EXCEPT ![f].mtime = now]
  /\ UNCHANGED <<now, last, calls>>

get_stat(p) ==
  LET t == th[p]
      f == cache_file(t) IN
  /\ t.pc = "get_stat"
  /\ IF ~is_file(files, f)
     THEN Step(p, Raise(t, "FileNotFoundError"))
     ELSE LET file_age == now - files[f].mtime
              u == [t EXCEPT !.file_age = file_age]
          IN IF Expired(file_age)
             THEN Step(p, [u EXCEPT !.pc = "get_unlink"])
             ELSE Step(p, GetHit(files, [th EXCEPT ![p] = u], p))
  /\ UNCHANGED <<files, now, last, calls>>

\* cache_file.unlink(); return None
get_unlink(p) ==
  LET t == th[p]
      f == cache_file(t) IN
  /\ t.pc = "get_unlink"
  /\ IF ~is_file(files, f)
     THEN Step(p, Raise(t, "FileNotFoundError")) /\ UNCHANGED files
     ELSE Unlink(p, GetMiss(t), f)
  /\ UNCHANGED <<now, last, calls>>

-----------------------------------------------------------------------------
(* CacheService._get_cache_size and the scan of CacheService.get_stats:    *)
(* sum(f.stat().st_size for f in glob("*") if f.is_file())                 *)

\* the listing is taken; get_stats also keeps it as `files`
size_glob(p) ==
  LET t == th[p] IN
  /\ t.pc = "size_glob"
  /\ Step(p, [t EXCEPT !.pc = "size_isfile", !.scan = glob(files), !.acc = 0,
                       !.cache_files = IF t.op = "get_stats"
                                       THEN glob(files) ELSE <<>>])
  /\ UNCHANGED <<files, now, last, calls>>

\* a bug the capacity claim detects: the incoming payload is not counted
EnoughSpaceIgnoringRequired(current_size, required_bytes) ==
  current_size <= max_size_bytes

\* a bug the oversized-payload claim detects: nothing is evicted for a
\* payload that cannot fit anyway
EnoughSpaceOrOversized(current_size, required_bytes) ==
  \/ current_size + required_bytes <= max_size_bytes
  \/ required_bytes > max_size_bytes

\* a bug the soft-bound claim detects: _ensure_space never evicts
EnoughSpaceAlways(current_size, required_bytes) == TRUE

\* _ensure_space: if current_size + required_bytes <= self.max_size_bytes
EnoughSpace(current_size, required_bytes) ==
  current_size + required_bytes <= max_size_bytes

\* get_stats: "total_size_mb": round(total_size / (1024 * 1024), 2), in
\* hundredths of a megabyte (no byte count lies halfway between two of them)
total_size_mb(total_size) ==
  LET n == total_size * 100
      q == n \div (1024 * 1024)
      r == n % (1024 * 1024)
  IN IF 2 * r > 1024 * 1024 THEN q + 1 ELSE q

\* the scan is over: get_stats builds its dict, _ensure_space returns early
\* or goes on to evict
SizeDone(t) ==
  IF t.op = "get_stats"
  THEN Finished(t, [NoOut EXCEPT
         !.res = "stats",
         !.total_size = t.acc,
         !.total_files =
            Cardinality({i \in 1..Len(t.cache_files) :
                           is_file(files, t.cache_files[i])})])
  ELSE IF EnoughSpace(t.acc, Len(t.data))
       THEN [t EXCEPT !.pc = "w_open", !.current_size = t.acc, !.acc = 0]
       ELSE [t EXCEPT !.pc = "es_glob", !.current_size = t.acc, !.acc = 0]

\* the generator's filter: if f.is_file()
size_isfile(p) ==
  LET t == th[p] IN
  /\ t.pc = "size_isfile"
  /\ IF t.scan = <<>>
     THEN Step(p, SizeDone(t))
     ELSE IF is_file(files, Head(t.scan))
          THEN Step(p, [t EXCEPT !.pc = "size_stat"])
          ELSE Step(p, [t EXCEPT !.scan = Tail(t.scan)])
  /\ UNCHANGED <<files, now, last, calls>>

\* f.stat().st_size
size_stat(p) ==
  LET t == th[p]
      f == Head(t.scan) IN
  /\ t.pc = "size_stat"
  /\ IF ~is_file(files, f)
     THEN Step(p, Raise(t, "FileNotFoundError"))
     ELSE Step(p, [t EXCEPT !.pc = "size_isfile", !.scan = Tail(t.scan),
                            !.acc = t.acc + st_size(files, f)])
  /\ UNCHANGED <<files, now, last, calls>>

-----------------------------------------------------------------------------
(* CacheService._ensure_space, after the early return was not taken        *)

\* self.cache_dir.glob("*")
es_glob(p) ==
  LET t == th[p] IN
  /\ t.pc = "es_glob"
  /\ Step(p, [t EXCEPT !.pc = "es_sort", !.cache_files = glob(files)])
  /\ UNCHANGED <<files, now, last, calls>>

\* sorted(..., key=lambda p: p.stat().st_mtime)
es_sort(p) ==
  LET t == th[p] IN
  /\ t.pc = "es_sort"
  /\ IF \E i \in 1..Len(t.cache_files) : ~is_file(files, t.cache_files[i])
     THEN Step(p, Raise(t, "FileNotFoundError"))
     ELSE \E s \in SortedByMtime(files, t.cache_files) :
            Step(p, [t EXCEPT !.pc = "es_loop", !.cache_files = s])
  /\ UNCHANGED <<files, now, last, calls>>

\* for file in cache_files: break when there is room; skip what is no file
es_loop(p) ==
  LET t == th[p] IN
  /\ t.pc = "es_loop"
  /\ IF t.cache_files = <<>> \/ EnoughSpace(t.current_size, Len(t.data))
     THEN Step(p, [t EXCEPT !.pc = "w_open", !.cache_files = <<>>,
                            !.current_size = 0])
     ELSE IF ~is_file(files, Head(t.cache_files))
          THEN Step(p, [t EXCEPT !.cache_files = Tail(t.cache_files)])
          ELSE Step(p, [t EXCEPT !.pc = "es_stat"])
  /\ UNCHANGED <<files, now, last, calls>>

\* file_size = file.stat().st_size
es_stat(p) ==
  LET t == th[p]
      f == Head(t.cache_files) IN
  /\ t.pc = "es_stat"
  /\ IF ~is_file(files, f)
     THEN Step(p, Raise(t, "FileNotFoundError"))
     ELSE Step(p, [t EXCEPT !.pc = "es_unlink",
                            !.file_size = st_size(files, f)])
  /\ UNCHANGED <<files, now, last, calls>>

\* file.unlink(); current_size -= file_size
es_unlink(p) ==
  LET t == th[p]
      f == Head(t.cache_files) IN
  /\ t.pc = "es_unlink"
  /\ IF ~is_file(files, f)
     THEN Step(p, Raise(t, "FileNotFoundError")) /\ UNCHANGED files
     ELSE Unlink(p, [t EXCEPT !.pc = "es_loop",
                              !.cache_files = Tail(t.cache_files),
                              !.current_size = t.current_size - t.file_size,
                              !.file_size = 0,
                              !.evicted = t.evicted + 1], f)
  /\ UNCHANGED <<now, last, calls>>

-----------------------------------------------------------------------------
(* cache_file.write_bytes(data) of CacheService.put:                       *)
(* open(mode="wb"), write, close                                           *)

\* a bug the round-trip claim detects: the file is opened without truncation
OpenNoTruncate(file, time) ==
  [exists |-> TRUE, content |-> file.content, mtime |-> time]

\* a bug the timestamp claim detects: truncation leaves the old mtime
OpenWbStaleStamp(file, time) ==
  [exists |-> TRUE, content |-> <<>>, mtime |-> file.mtime]

\* open(cache_file, "wb"): the file is created, or truncated in place
OpenWb(file, time) == [exists |-> TRUE, content |-> <<>>, mtime |-> time]

w_open(p) ==
  LET t == [th[p] EXCEPT !.wrote = TRUE]
      f == cache_file(t) IN
  /\ t.pc = "w_open"
  /\ files' = [files EXCEPT ![f] = OpenWb(files[f], now)]
  /\ IF t.data = <<>>
     THEN Step(p, PutReturn(files', t))
     ELSE Step(p, [t EXCEPT !.pc = "w_write", !.off = 0, !.fd = TRUE,
                            !.old = files[f]])
  /\ UNCHANGED <<now, last, calls>>

\* f.write(data): the bytes reach the file in one or more pieces
w_write(p) ==
  LET t == th[p]
      f == cache_file(t) IN
  /\ t.pc = "w_write"
  /\ \E n \in 1..(Len(t.data) - t.off) :
       LET chunk == SubSeq(t.data, t.off + 1, t.off + n) IN
       /\ files' = IF t.fd
                   THEN [files EXCEPT ![f] =
                           [exists |-> TRUE,
                            content |-> WriteAt(files[f].content, t.off, chunk),
                            mtime |-> now]]
                   ELSE files
       /\ IF t.off + n = Len(t.data)
          THEN Step(p, PutReturn(files', t))
          ELSE Step(p, [t EXCEPT !.off = t.off + n])
  /\ UNCHANGED <<now, last, calls>>

-----------------------------------------------------------------------------
(* Filesystem calls of CacheService.put that fail.  Nothing in put or      *)
(* _ensure_space catches an exception, so each failure leaves the call.    *)

\* file.unlink() raises (the file is in use, the directory is read-only)
es_unlink_fails(p) ==
  LET t == th[p] IN
  /\ t.pc = "es_unlink"
  /\ is_file(files, Head(t.cache_files))
  /\ Step(p, Raise(t, "PermissionError"))
  /\ UNCHANGED <<files, now, last, calls>>

\* open(cache_file, "wb") raises: no file is created or truncated
w_open_fails(p) ==
  LET t == th[p] IN
  /\ t.pc = "w_open"
  /\ Step(p, Raise(t, "OSError"))
  /\ UNCHANGED <<files, now, last, calls>>

\* f.write(data) raises (the disk is full): the file stays as the bytes
\* written so far left it
w_write_fails(p) ==
  LET t == th[p] IN
  /\ t.pc = "w_write"
  /\ Step(p, Raise(t, "OSError"))
  /\ UNCHANGED <<files, now, last, calls>>

-----------------------------------------------------------------------------
(* CacheService.clear                                                      *)

\* for file in self.cache_dir.glob("*")
clear_glob(p) ==
  LET t == th[p] IN
  /\ t.pc = "clear_glob"
  /\ Step(p, [t EXCEPT !.pc = "clear_isfile", !.cache_files = glob(files)])
  /\ UNCHANGED <<files, now, last, calls>>

\* if file.is_file()
clear_isfile(p) ==
  LET t == th[p] IN
  /\ t.pc = "clear_isfile"
  /\ IF t.cache_files = <<>>
     THEN Step(p, Finished(t, [NoOut EXCEPT !.res = "cleared"]))
     ELSE IF is_file(files, Head(t.cache_files))
          THEN Step(p, [t EXCEPT !.pc = "clear_unlink"])
          ELSE Step(p, [t EXCEPT !.cache_files = Tail(t.cache_files)])
  /\ UNCHANGED <<files, now, last, calls>>

\* a bug the purge claim detects: clear passes over a file without unlinking
clear_unlink_skipped(p) ==
  LET t == th[p] IN
  /\ t.pc = "clear_unlink"
  /\ Step(p, [t EXCEPT !.pc = "clear_isfile",
                       !.cache_files = Tail(t.cache_files)])
  /\ UNCHANGED <<files, now, last, calls>>

\* file.unlink()
clear_unlink(p) ==
  LET t == th[p]
      f == Head(t.cache_files) IN
  /\ t.pc = "clear_unlink"
  /\ IF ~is_file(files, f)
     THEN Step(p, Raise(t, "FileNotFoundError")) /\ UNCHANGED files
     ELSE Unlink(p, [t EXCEPT !.pc = "clear_isfile",
                              !.cache_files = Tail(t.cache_files)], f)
  /\ UNCHANGED <<now, last, calls>>

-----------------------------------------------------------------------------
(* storage_service.download_file and the rest of the download handlers     *)

\* what s3_client.get_object does: the object's body, a ClientError (the
\* key is absent, access is denied), or an error that is no ClientError
RemoteReplies ==
  {[kind |-> "ok", body |-> b] : b \in Payloads} \cup
  {[kind |-> k, body |-> <<>>] :
     k \in {"NoSuchKey", "AccessDenied", "EndpointConnectionError"}}

IsClientError(r) == r.kind \in {"NoSuchKey", "AccessDenied"}

None == [none |-> TRUE, body |-> <<>>]

\* ObjectStorageService.download_file, when get_object does not raise past it
download_file(r) ==
  IF IsClientError(r) THEN None ELSE [none |-> FALSE, body |-> r.body]

\* a bug the not-found claim detects: the handler does not test file_data
TruthyAlways(file_data) == TRUE

\* Python's truth value of Optional[bytes]
Truthy(file_data) == ~file_data.none /\ Len(file_data.body) > 0

\* a bug the single-call claim detects: after a ClientError the handler
\* calls download_file again
download_retry(p) ==
  LET t == th[p] IN
  /\ t.pc = "download"
  /\ \E r \in RemoteReplies :
       LET u == [t EXCEPT !.remote = r.kind] IN
       IF r.kind = "EndpointConnectionError"
       THEN Step(p, Raise(u, r.kind))
       ELSE IF IsClientError(r) /\ t.remote = "none"
            THEN Step(p, u)
            ELSE LET file_data == download_file(r) IN
                 IF ~Truthy(file_data)
                 THEN Step(p, Finished(u, [NoOut EXCEPT !.res = "404"]))
                 ELSE Step(p, [u EXCEPT !.pc = "size_glob",
                                        !.data = file_data.body, !.puts = 1])
  /\ UNCHANGED <<files, now, last, calls>>

\* file_data = storage_service.download_file(file_path)
\* if not file_data: raise HTTPException(status_code=404, ...)
\* cached_file = cache_service.put(file_path, file_data, extension=...)
download(p) ==
  LET t == th[p] IN
  /\ t.pc = "download"
  /\ \E r \in RemoteReplies :
       LET u == [t EXCEPT !.remote = r.kind] IN
       IF r.kind = "EndpointConnectionError"
       THEN Step(p, Raise(u, r.kind))
       ELSE LET file_data == download_file(r) IN
            IF ~Truthy(file_data)
            THEN Step(p, Finished(u, [NoOut EXCEPT !.res = "404"]))
            ELSE Step(p, [u EXCEPT !.pc = "size_glob",
                                   !.data = file_data.body, !.puts = 1])
  /\ UNCHANGED <<files, now, last, calls>>

\* return FileResponse(cached_file, ...): once the handler has returned, the
\* response opens the path and sends the file's bytes; a path that is gone by
\* then cannot be served
send_file(p) ==
  LET t == th[p]
      f == cache_file(t) IN
  /\ t.pc = "done" /\ IsHandler(t.op) /\ t.out.res = "200"
  /\ Step(p, [t EXCEPT
         !.out.res = IF is_file(files, f) THEN "sent" ELSE "gone",
         !.out.torn = is_file(files, f) /\ files[f].content # t.out.seen])
  /\ UNCHANGED <<files, now, last, calls>>

-----------------------------------------------------------------------------
(* The clock, and a finished call leaving its thread.                      *)

Tick ==
  /\ now < MaxTime
  /\ now' = now + 1
  /\ UNCHANGED <<files, th, last, calls>>

\* the clock of the runs with overlapping calls, which stops once an entry
\* written at time 0 has expired
ExpiryHorizon == ttl_seconds + 1

TickToExpiry ==
  /\ now < ExpiryHorizon
  /\ now' = now + 1
  /\ UNCHANGED <<files, th, last, calls>>

\* the clock of the runs of put calls: put reads it only to stamp the file
\* it writes and compares the stamps with each other, so it is enough that
\* the clock advances (or not) once between two calls
TickBetweenCalls ==
  /\ \A p \in Procs : th[p].pc = "idle"
  /\ calls # <<>> /\ calls[Len(calls)].at = now
  /\ now < MaxTime
  /\ now' = now + 1
  /\ UNCHANGED <<files, th, last, calls>>

Completed(t) ==
  [op |-> t.op, file_path |-> t.file_path, extension |-> t.extension,
   data |-> t.data, res |-> t.out.res, served |-> t.out.served,
   evicted |-> t.evicted]

\* the caller takes the result; `last` remembers the call
Finish(p) ==
  /\ th[p].pc = "done"
  /\ last' = Completed(th[p])
  /\ Step(p, Idle)
  /\ UNCHANGED <<files, now, calls>>

\* the same, in the runs where calls overlap and no call is `last`
Return(p) ==
  /\ th[p].pc = "done"
  /\ Step(p, Idle)
  /\ UNCHANGED <<files, now, last, calls>>

\* the same, in the runs made of put calls only, which keep their history
FinishPut(p) ==
  /\ th[p].pc = "done"
  /\ calls' = Append(calls, [file |-> cache_file(th[p]),
                             size |-> Len(th[p].data),
                             at |-> files[cache_file(th[p])].mtime])
  /\ Step(p, Idle)
  /\ UNCHANGED <<files, now, last>>

-----------------------------------------------------------------------------
(* The steps of the code, common to all specifications.                    *)

CodeStep(p) ==
  \/ get_exists(p) \/ get_stat(p) \/ get_unlink(p)
  \/ size_glob(p) \/ size_isfile(p) \/ size_stat(p)
  \/ es_glob(p) \/ es_sort(p) \/ es_loop(p) \/ es_stat(p) \/ es_unlink(p)
  \/ w_open(p) \/ w_write(p)
  \/ clear_glob(p) \/ clear_isfile(p) \/ clear_unlink(p)
  \/ download(p)

(* Spec: one request at a time (no concurrent access).                     *)

SeqRequests == {PdfReq("d1"), PngReq("d1")}
SeqIds == {"d1"}

Next ==
  \/ \E rq \in SeqRequests : CallGet(1, rq)
  \/ \E rq \in SeqRequests, d \in Payloads : CallPut(1, rq, d)
  \/ CallClear(1)
  \/ CallStats(1)
  \/ \E id \in SeqIds : CallOriginalPdf(1, id)
  \/ \E id \in SeqIds : CallPreviewImage(1, id)
  \/ CodeStep(1)
  \/ Finish(1)
  \/ Tick

Spec == Init /\ [][Next]_vars

(* StoreSpec: put calls only, one at a time, from an empty cache; the      *)
(* completed calls are kept in `calls`.                                    *)

StorePayloads == {<<1>>, <<2, 2>>, <<4, 4, 4, 4>>}

StoreNext ==
  \/ \E rq \in Requests, d \in StorePayloads :
       Len(calls) < MaxCalls /\ CallPut(1, rq, d)
  \/ size_glob(1) \/ size_isfile(1) \/ size_stat(1)
  \/ es_glob(1) \/ es_sort(1) \/ es_loop(1) \/ es_stat(1) \/ es_unlink(1)
  \/ w_open(1) \/ w_write(1)
  \/ FinishPut(1)
  \/ TickBetweenCalls

StoreSpec == Init /\ [][StoreNext]_vars

(* ReadWriteSpec: thread 1 makes put calls and thread 2 get calls, which   *)
(* interleave step by step.                                                *)

ConcPayloads == {<<1>>, <<2, 2>>}

ReadWriteNext ==
  \/ \E rq \in SeqRequests, d \in ConcPayloads : CallPut(1, rq, d)
  \/ size_glob(1) \/ size_isfile(1) \/ size_stat(1)
  \/ es_glob(1) \/ es_sort(1) \/ es_loop(1)
  \/ es_stat(1) \/ es_unlink(1)
  \/ w_open(1) \/ w_write(1)
  \/ \E rq \in SeqRequests : CallGet(2, rq)
  \/ get_exists(2) \/ get_stat(2) \/ get_unlink(2)
  \/ \E p \in Procs : Return(p)
  \/ TickToExpiry

ReadWriteSpec == Init /\ [][ReadWriteNext]_vars

(* WriteWriteSpec: each thread makes one put call, and the two interleave   *)
(* step by step; once both have returned, thread 1 makes one further put   *)
(* call, which nothing overlaps.                                           *)

WriteWriteNext ==
  \/ \E p \in Procs, rq \in SeqRequests, d \in ConcPayloads :
       last = NoLast /\ CallPut(p, rq, d)
  \/ \E rq \in SeqRequests, d \in ConcPayloads :
       last # NoLast /\ CallPut(1, rq, d)
  \/ \E p \in Procs :
       \/ size_glob(p) \/ size_isfile(p) \/ size_stat(p)
       \/ es_glob(p) \/ es_sort(p) \/ es_loop(p)
       \/ es_stat(p) \/ es_unlink(p)
       \/ w_open(p) \/ w_write(p)
  \/ (last = NoLast /\ th[2].pc = "done" /\ Finish(1))

WriteWriteSpec == Init /\ [][WriteWriteNext]_vars

(* FetchFetchSpec: both threads serve GET /files/d1/pdf requests, which     *)
(* interleave step by step.                                                *)

FetchFetchNext ==
  \/ \E p \in Procs, id \in SeqIds : CallOriginalPdf(p, id)
  \/ \E p \in Procs :
       \/ get_exists(p) \/ get_stat(p) \/ get_unlink(p)
       \/ download(p)
       \/ size_glob(p) \/ size_isfile(p) \/ size_stat(p)
       \/ es_glob(p) \/ es_sort(p) \/ es_loop(p)
       \/ es_stat(p) \/ es_unlink(p)
       \/ w_open(p) \/ w_write(p)
  \/ \E p \in Procs : Return(p)
  \/ TickToExpiry

FetchFetchSpec == Init /\ [][FetchFetchNext]_vars

(* FaultSpec: download requests, one at a time, on a filesystem whose      *)
(* unlink, open and write calls may fail.                                  *)

FaultNext ==
  \/ \E id \in SeqIds : CallOriginalPdf(1, id)
  \/ \E id \in SeqIds : CallPreviewImage(1, id)
  \/ get_exists(1) \/ get_stat(1) \/ get_unlink(1)
  \/ download(1)
  \/ size_glob(1) \/ size_isfile(1) \/ size_stat(1)
  \/ es_glob(1) \/ es_sort(1) \/ es_loop(1) \/ es_stat(1) \/ es_unlink(1)
  \/ w_open(1) \/ w_write(1)
  \/ es_unlink_fails(1) \/ w_open_fails(1) \/ w_write_fails(1)
  \/ Finish(1)
  \/ Tick

FaultSpec == Init /\ [][FaultNext]_vars

(* ServeSpec: thread 1 serves GET /files/d1/pdf requests and their          *)
(* responses are sent, while thread 2 serves GET /files/d1/preview         *)
(* requests.                                                               *)

ServeNext ==
  \/ \E id \in SeqIds : CallOriginalPdf(1, id)
  \/ \E id \in SeqIds : CallPreviewImage(2, id)
  \/ \E p \in Procs :
       \/ get_exists(p) \/ get_stat(p) \/ get_unlink(p)
       \/ download(p)
       \/ size_glob(p) \/ size_isfile(p) \/ size_stat(p)
       \/ es_glob(p) \/ es_sort(p) \/ es_loop(p)
       \/ es_stat(p) \/ es_unlink(p)
       \/ w_open(p) \/ w_write(p)
  \/ send_file(1)
  \/ \E p \in Procs : Return(p)
  \/ TickToExpiry

ServeSpec == Init /\ [][ServeNext]_vars

(* IsoSpec: put calls to the two keys of d1 and get calls to them and to   *)
(* the key of the pdf with the default extension "", one at a time.        *)

IsoLookups == SeqRequests \cup {<<PdfPath("d1"), "">>}

IsoNext ==
  \/ \E rq \in SeqRequests, d \in StorePayloads : CallPut(1, rq, d)
  \/ \E rq \in IsoLookups : CallGet(1, rq)
  \/ get_exists(1) \/ get_stat(1) \/ get_unlink(1)
  \/ size_glob(1) \/ size_isfile(1) \/ size_stat(1)
  \/ es_glob(1) \/ es_sort(1) \/ es_loop(1) \/ es_stat(1) \/ es_unlink(1)
  \/ w_open(1) \/ w_write(1)
  \/ Finish(1)
  \/ Tick

IsoSpec == Init /\ [][IsoNext]_vars

-----------------------------------------------------------------------------
(* Properties of calls that do not overlap (checked under Spec).           *)

\* a put (direct, or made by a handler) has returned its cache_file to p
StoreReturned(t) ==
  /\ t.pc = "done"
  /\ t.puts = 1
  /\ t.out.res \in {"stored", "200"}

HandlerDone(t) == t.pc = "done" /\ IsHandler(t.op)

\* C2: without concurrent access, right after a store of a payload of at
\* most max_bytes returns, the sizes of all cache entries sum to at most
\* max_bytes.
C2_CapacityRestoredAfterStore ==
  \A p \in Procs :
    (StoreReturned(th[p]) /\ Len(th[p].data) <= max_size_bytes)
      => TotalSize(files) <= max_size_bytes

\* a store that had to evict to get under the ceiling has returned
C2_Witness ==
  \E p \in Procs :
    /\ StoreReturned(th[p])
    /\ Len(th[p].data) <= max_size_bytes
    /\ th[p].evicted > 0
    /\ Cardinality(Resident(files)) > 1

\* C3 (as claimed): a lookup of an entry of age T' - T < ttl_seconds hits,
\* and at any age T' - T >= ttl_seconds, the age ttl_seconds itself
\* included, it returns absent and the file is gone when it returns.
C3_ExpiresAtTtl ==
  \A p \in Procs :
    LET t == th[p] IN
    (t.pc = "done" /\ t.op = "get" /\ t.file_age >= 0) =>
      IF t.file_age < ttl_seconds
      THEN t.out.res = "hit"
      ELSE t.out.res = "miss" /\ ~is_file(files, cache_file(t))

\* C3 (amended): a lookup of an entry of age T' - T <= ttl_seconds hits, and
\* at any age T' - T > ttl_seconds it returns absent and the file is gone
\* when it returns; an entry older than ttl_seconds is never a hit.
C3_ExpiresAfterTtl ==
  \A p \in Procs :
    LET t == th[p] IN
    (t.pc = "done" /\ t.op = "get" /\ t.file_age >= 0) =>
      IF t.file_age <= ttl_seconds
      THEN t.out.res = "hit"
      ELSE t.out.res = "miss" /\ ~is_file(files, cache_file(t))

\* a lookup has hit an entry whose age is exactly ttl_seconds
C3_Witness ==
  \E p \in Procs :
    /\ th[p].pc = "done" /\ th[p].op = "get"
    /\ th[p].file_age = ttl_seconds
    /\ th[p].out.res = "hit"

\* C4: a store(key, ext, data) followed at once by lookup(key, ext), with no
\* TTL expiry in between, returns a location whose content is exactly data,
\* whatever the store evicted or overwrote.
C4_StoreThenLookupRoundTrip ==
  \A p \in Procs :
    LET t == th[p] IN
    (/\ t.pc = "done" /\ t.op = "get"
     /\ last.op = "put" /\ last.res = "stored"
     /\ last.file_path = t.file_path /\ last.extension = t.extension
     /\ t.file_age <= ttl_seconds)
      => (t.out.res = "hit" /\ t.out.seen = last.data)

\* the lookup hit right after a store that evicted an entry to make room
C4_Witness ==
  \E p \in Procs :
    LET t == th[p] IN
    /\ t.pc = "done" /\ t.op = "get" /\ t.out.res = "hit"
    /\ last.op = "put" /\ last.res = "stored" /\ last.evicted > 0
    /\ last.file_path = t.file_path /\ last.extension = t.extension
    /\ t.out.seen = last.data /\ Len(last.data) > 0

\* C7: a failed remote get (a RemoteError: network, auth, transient) reaches
\* the handler's caller as an outcome other than the not-found one.
C7_RemoteErrorIsNotNotFound ==
  \A p \in Procs :
    (HandlerDone(th[p])
       /\ th[p].remote \in {"AccessDenied", "EndpointConnectionError"})
      => th[p].out.res # "404"

\* C8: when the lookup misses and the remote reports the object absent, the
\* handler answers not-found, writes nothing, leaves no entry for the key
\* and removes no other entry.
C8_AbsentRemoteIsNotFound ==
  \A p \in Procs :
    LET t == th[p] IN
    (HandlerDone(t) /\ t.remote = "NoSuchKey") =>
      /\ t.out.res = "404"
      /\ ~t.wrote /\ t.puts = 0
      /\ t.unlinked \subseteq {cache_file(t)}
      /\ ~is_file(files, cache_file(t))

\* not-found was answered while the cache held another entry
C8_Witness ==
  \E p \in Procs :
    /\ HandlerDone(th[p]) /\ th[p].remote = "NoSuchKey"
    /\ th[p].out.res = "404"
    /\ Resident(files) # {}

\* C9: when the lookup misses and the remote holds the object, the handler
\* stores the fetched bytes and answers with served_from_cache = false; the
\* next fetch of the key is served from the cache with the same bytes.
C9_RemoteObjectIsStored ==
  \A p \in Procs :
    LET t == th[p] IN
    /\ (HandlerDone(t) /\ t.remote = "ok") =>
         /\ t.out.res = "200" /\ ~t.out.served
         /\ is_file(files, cache_file(t))
         /\ files[cache_file(t)].content = t.data
    /\ (/\ HandlerDone(t) /\ IsHandler(last.op) /\ last.res = "200"
        /\ ~last.served /\ last.file_path = t.file_path
        /\ t.file_age <= ttl_seconds) =>
         (t.out.res = "200" /\ t.out.served /\ t.out.seen = last.data)

\* C10: when the lookup hits inside a handler, the handler answers with that
\* location and served_from_cache = true, and neither calls the remote
\* store's get nor the cache's put.
C10_HitSkipsRemoteAndStore ==
  \A p \in Procs :
    LET t == th[p] IN
    /\ (HandlerDone(t) /\ t.file_age >= 0 /\ t.file_age <= ttl_seconds) =>
         (t.out.res = "200" /\ t.out.served)
    /\ (HandlerDone(t) /\ t.out.served) =>
         (t.remote = "none" /\ t.puts = 0 /\ ~t.wrote /\ t.unlinked = {})

\* a handler served an entry from the cache
C10_Witness ==
  \E p \in Procs :
    /\ HandlerDone(th[p]) /\ th[p].out.served
    /\ Len(th[p].out.seen) > 0

\* C14: purge_all leaves no entry; stats called right after it reports no
\* entry and no byte, and a lookup (direct or by a handler) right after it
\* returns absent.
C14_PurgeThenStatsIsEmpty ==
  \A p \in Procs :
    LET t == th[p] IN
    /\ (t.pc = "done" /\ t.op = "clear") =>
         (t.out.res = "cleared" /\ Resident(files) = {})
    /\ (t.pc = "done" /\ t.op = "get_stats" /\ last.op = "clear") =>
         /\ t.out.res = "stats"
         /\ t.out.total_files = 0
         /\ t.out.total_size = 0
         /\ total_size_mb(t.out.total_size) = 0
    /\ (t.pc = "done" /\ t.op = "get" /\ last.op = "clear") =>
         t.out.res = "miss"
    /\ (HandlerDone(t) /\ last.op = "clear") => ~t.out.served

\* purge_all has returned after removing two entries
C14_Witness ==
  \E p \in Procs :
    /\ th[p].pc = "done" /\ th[p].op = "clear"
    /\ Cardinality(th[p].unlinked) = 2
    /\ Resident(files) = {}

\* C15: a lookup that hits changes nothing: it removes and writes no file,
\* and the step that returns the hit leaves every entry's content and
\* modification time as they were, so the age it compared with ttl_seconds
\* is still the time since the entry was written.
C15_HitChangesNothing ==
  [][\A p \in Procs :
       LET t == th[p]
           u == th'[p] IN
       (/\ t.pc \in {"get_exists", "get_stat"}
        /\ u.pc = "done"
        /\ (u.out.res = "hit" \/ u.out.served)) =>
         /\ files' = files
         /\ u.unlinked = {} /\ ~u.wrote
         /\ u.file_age = now - files'[cache_file(u)].mtime]_vars

\* an entry that was hit before is hit again at the age ttl_seconds
C15_Witness ==
  \E p \in Procs :
    LET t == th[p] IN
    /\ t.pc = "done" /\ t.op = "get" /\ t.out.res = "hit"
    /\ last.op = "get" /\ last.res = "hit"
    /\ last.file_path = t.file_path /\ last.extension = t.extension
    /\ t.file_age = ttl_seconds
    /\ Cardinality(Resident(files)) > 1

\* C19: a store of a payload larger than max_bytes is no error: it evicts
\* every existing entry, writes the payload and returns its location, and
\* the oversized entry is then the only resident entry, with total size
\* above max_bytes.
C19_OversizedStoreIsSoleResident ==
  \A p \in Procs :
    LET t == th[p] IN
    (t.pc = "done" /\ t.puts = 1 /\ Len(t.data) > max_size_bytes) =>
      /\ StoreReturned(t)
      /\ Resident(files) = {cache_file(t)}
      /\ files[cache_file(t)].content = t.data
      /\ TotalSize(files) > max_size_bytes

\* an oversized store has returned after evicting two entries
C19_Witness ==
  \E p \in Procs :
    /\ StoreReturned(th[p])
    /\ Len(th[p].data) > max_size_bytes
    /\ th[p].evicted = 2
    /\ Resident(files) = {cache_file(th[p])}

\* C20: every step that creates an entry or changes its content (the
\* truncation included) sets its modification time to the current time, so
\* no entry is visible with changed content and the old timestamp; when a
\* store returns, its entry carries the time of the write and no resident
\* entry is newer.
C20_WriteStampsEntry ==
  [][/\ \A f \in Locs :
          (/\ files'[f].exists
           /\ (~files[f].exists \/ files'[f].content # files[f].content)) =>
            files'[f].mtime = now
     /\ \A p \in Procs :
          (th[p].pc \in {"w_open", "w_write"} /\ StoreReturned(th'[p])) =>
            /\ files'[cache_file(th[p])].mtime = now
            /\ \A g \in Resident(files') :
                 files'[g].mtime <= files'[cache_file(th[p])].mtime]_vars

\* an entry has been rewritten at a later time than it was first written,
\* next to an older entry
C20_Witness ==
  \E p \in Procs :
    LET t == th[p] IN
    /\ StoreReturned(t)
    /\ last.op = "put" /\ last.res = "stored"
    /\ last.file_path = t.file_path /\ last.extension = t.extension
    /\ files[cache_file(t)].mtime = now /\ now = MaxTime
    /\ \E g \in Resident(files) : files[g].mtime < now

\* C22: stats called with nothing interleaved returns an entry count equal
\* to the number of entries on disk and a total size equal to the sum of
\* their sizes (the reported hundredths of a megabyte stand for exactly
\* that many bytes), and it creates, writes and removes nothing.
C22_StatsMatchDisk ==
  \A p \in Procs :
    LET t == th[p] IN
    (t.pc = "done" /\ t.op = "get_stats") =>
      /\ t.out.res = "stats"
      /\ t.out.total_files = Cardinality(Resident(files))
      /\ total_size_mb(t.out.total_size) * (1024 * 1024)
           = TotalSize(files) * 100
      /\ t.unlinked = {} /\ ~t.wrote

\* C23: each fetch calls the remote store's get at most once: the handler
\* reaches the download only from its lookup and before any remote reply,
\* the download takes one reply and leaves that point of the code, and the
\* reply stays the invocation's only one until it ends.
C23_AtMostOneRemoteGet ==
  [][\A p \in Procs :
       /\ (th[p].pc # "download" /\ th'[p].pc = "download") =>
            (th[p].remote = "none" /\ th[p].pc \in {"get_exists", "get_unlink"})
       /\ (th[p].pc = "download" /\ th'[p] # th[p]) =>
            /\ th[p].remote = "none"
            /\ th'[p].remote # "none"
            /\ th'[p].pc # "download"
       /\ th[p].remote # "none" =>
            (th'[p].pc = "idle" \/ th'[p].remote = th[p].remote)]_vars

\* a fetch has ended after its one remote call failed
C23_Witness ==
  \E p \in Procs :
    /\ HandlerDone(th[p])
    /\ th[p].remote \in {"AccessDenied", "EndpointConnectionError"}
    /\ th[p].out.res \in {"404", "500"}
    /\ th[p].puts = 0

\* C24: whenever the remote store holds an object for the key, whatever its
\* bytes (a zero-length object included), a fetch that misses stores those
\* bytes and returns a location; not-found is answered only when the remote
\* reports the object absent.
C24_HeldObjectIsNeverNotFound ==
  \A p \in Procs :
    LET t == th[p] IN
    /\ (HandlerDone(t) /\ t.remote = "ok") =>
         (t.out.res = "200" /\ t.puts = 1 /\ t.wrote
            /\ is_file(files, cache_file(t)))
    /\ (HandlerDone(t) /\ t.out.res = "404") => t.remote = "NoSuchKey"

-----------------------------------------------------------------------------
(* Properties of sequences of put calls (checked under StoreSpec).         *)

NoCallRunning == \A p \in Procs : th[p].pc = "idle"

\* the summed size of the last k calls
RECURSIVE SuffixSize(_)
SuffixSize(k) ==
  IF k = 0 THEN 0
  ELSE calls[Len(calls) - k + 1].size + SuffixSize(k - 1)

\* the longest suffix of the calls whose summed size is at most max_bytes
LargestSuffix ==
  CHOOSE k \in 0..Len(calls) :
    /\ SuffixSize(k) <= max_size_bytes
    /\ k < Len(calls) => SuffixSize(k + 1) > max_size_bytes

SuffixFiles(k) == {calls[i].file : i \in (Len(calls) - k + 1)..Len(calls)}

\* C5 (as claimed): after any sequence of store calls whose sizes sum beyond
\* max_bytes, the resident entries are exactly those of the most recent
\* suffix of the calls whose summed size is the largest that is <= max_bytes.
C5_ResidentIsLargestSuffix ==
  (NoCallRunning /\ SuffixSize(Len(calls)) > max_size_bytes)
    => Resident(files) = SuffixFiles(LargestSuffix)

\* the calls store to distinct keys, at distinct modification times, payloads
\* of at most max_bytes each
DistinctCalls ==
  /\ \A i, j \in 1..Len(calls) :
       i # j => (calls[i].file # calls[j].file /\ calls[i].at # calls[j].at)
  /\ \A i \in 1..Len(calls) : calls[i].size <= max_size_bytes

\* C5 (amended): after a sequence of store calls to distinct keys, written at
\* distinct modification times, each of at most max_bytes, whose sizes sum
\* beyond max_bytes, the resident entries are exactly those of the most
\* recent suffix of the calls whose summed size is the largest <= max_bytes.
C5_ResidentIsLargestSuffixOfDistinct ==
  (NoCallRunning /\ DistinctCalls /\ SuffixSize(Len(calls)) > max_size_bytes)
    => Resident(files) = SuffixFiles(LargestSuffix)

\* three such calls have left the two most recent entries resident
C5_Witness ==
  /\ NoCallRunning /\ DistinctCalls
  /\ Len(calls) = 3
  /\ SuffixSize(3) > max_size_bytes
  /\ LargestSuffix = 2
  /\ Cardinality(Resident(files)) = 2

\* the summed size of the distinct entries of the first j calls, each key
\* counted once at its latest size
LatestCall(j, f) ==
  CHOOSE i \in 1..j :
    calls[i].file = f /\ \A k \in (i + 1)..j : calls[k].file # f
RECURSIVE SumLatest(_, _)
SumLatest(j, F) ==
  IF F = {} THEN 0
  ELSE LET f == CHOOSE x \in F : TRUE
       IN calls[LatestCall(j, f)].size + SumLatest(j, F \ {f})
UniqueSize(j) == SumLatest(j, {calls[i].file : i \in 1..j})

\* C6: in a sequence of store calls (repeated stores to a key included) in
\* which the summed size of the distinct entries never exceeds max_bytes, no
\* call evicts an entry: every key stored so far is still resident.
C6_NoEvictionWithinCapacity ==
  (NoCallRunning /\ \A j \in 1..Len(calls) : UniqueSize(j) <= max_size_bytes)
    => Resident(files) = {calls[i].file : i \in 1..Len(calls)}

\* C18: within one store, entries are evicted in ascending order of
\* modification time: an entry is removed only while the total plus the new
\* payload exceeds max_bytes and only when no resident entry is strictly
\* older; the eviction pass ends only once the total plus the new payload is
\* within max_bytes or no entry remains.
C18_EvictsOldestFirst ==
  [][/\ \A f \in Locs :
          (files[f].exists /\ ~files'[f].exists) =>
            /\ th[1].pc = "es_unlink"
            /\ TotalSize(files) + Len(th[1].data) > max_size_bytes
            /\ \A g \in Resident(files) : files[g].mtime >= files[f].mtime
     /\ (th[1].pc \in {"size_isfile", "es_loop"} /\ th'[1].pc = "w_open") =>
          \/ TotalSize(files) + Len(th[1].data) <= max_size_bytes
          \/ Resident(files) = {}]_vars

\* the eviction pass has removed an older entry and stopped before a newer
\* one, which is still resident
C18_Witness ==
  /\ th[1].pc = "w_open" /\ th[1].evicted = 1
  /\ \E i, j \in 1..Len(calls) :
       /\ calls[i].file \in th[1].unlinked
       /\ is_file(files, calls[j].file)
       /\ calls[i].at < files[calls[j].file].mtime

-----------------------------------------------------------------------------
(* Properties of a lookup that overlaps a store (checked under             *)
(* ReadWriteSpec).                                                         *)

\* C1: while a store is in progress, a lookup of the same key returns absent
\* or a location whose file holds the complete previous payload or the
\* complete new payload, never a truncated or partly written one.
C1_NoTornRead ==
  \A p \in Procs :
    (th[p].pc = "done" /\ th[p].op = "get" /\ th[p].out.res = "hit")
      => ~th[p].out.torn

\* C25: a lookup never deletes an entry that is within its TTL: whenever a
\* lookup's unlink removes the entry, also while a store is rewriting it,
\* the entry it removes is older than ttl_seconds.
C25_LookupDeletesOnlyExpired ==
  [][\A p \in Procs :
       LET f == cache_file(th[p]) IN
       (/\ th[p].pc = "get_unlink" /\ th'[p].pc # "get_unlink"
        /\ files[f].exists /\ ~files'[f].exists) =>
         now - files[f].mtime > ttl_seconds]_vars

-----------------------------------------------------------------------------
(* Properties of two stores that overlap (checked under WriteWriteSpec).   *)

\* both threads have returned from their first put, made to the same key
BothStored(f) ==
  /\ last = NoLast
  /\ \A p \in Procs : StoreReturned(th[p]) /\ cache_file(th[p]) = f

\* C11: when two stores to the same key interleave, the file at the key's
\* location after both have returned holds exactly the whole payload of one
\* of the two writers, never a mixture or a truncation.
C11_LastWriterWins ==
  \A f \in Locs :
    BothStored(f) =>
      /\ is_file(files, f)
      /\ \E p \in Procs : files[f].content = th[p].data

-----------------------------------------------------------------------------
(* Properties of two fetches that overlap (checked under FetchFetchSpec).  *)

\* C12: when two fetches of the same key interleave in any way, neither ends
\* with an error caused by the other (a file the other removed under it):
\* each ends in a hit, in not-found or in a successful store.
C12_ConcurrentFetchesDoNotFail ==
  \A p \in Procs :
    HandlerDone(th[p]) => th[p].out.exc # "FileNotFoundError"

\* thread 1 has returned from the put it made after both first puts returned
SoloStoreReturned == last # NoLast /\ StoreReturned(th[1])

\* C13: two interleaved stores can each find that no eviction is needed and
\* leave the total above max_bytes; the next store that runs with nothing
\* interleaved, of a payload of at most max_bytes, ends with the total at
\* most max_bytes.
C13_NextStoreRestoresCapacity ==
  (SoloStoreReturned /\ Len(th[1].data) <= max_size_bytes)
    => TotalSize(files) <= max_size_bytes

\* the two interleaved stores evicted nothing and left two entries that sum
\* beyond max_bytes; the store after them evicted and restored the bound
C13_Witness ==
  /\ SoloStoreReturned
  /\ last.res = "stored" /\ last.evicted = 0
  /\ StoreReturned(th[2]) /\ th[2].evicted = 0
  /\ CacheFile(last.file_path, last.extension) # cache_file(th[2])
  /\ Len(last.data) + Len(th[2].data) > max_size_bytes
  /\ th[1].evicted > 0
  /\ TotalSize(files) <= max_size_bytes

-----------------------------------------------------------------------------
(* Properties of calls on a failing filesystem (checked under FaultSpec).  *)

\* C16: when the deletion of an eviction candidate fails during a store, the
\* failure stays inside the eviction pass: no store (direct or made by a
\* handler) ends with that error, it goes on to its write instead.
C16_EvictionFailureIsHandled ==
  \A p \in Procs :
    (th[p].pc = "done" /\ th[p].puts = 1)
      => th[p].out.exc # "PermissionError"

\* C17: when the payload write of a store fails, the store fails with the
\* I/O error and a handler answers with a server-side fault, not with
\* not-found and not with a successful response.
C17_WriteFailureIsServerFault ==
  \A p \in Procs :
    LET t == th[p] IN
    (t.pc = "done" /\ t.out.exc = "OSError") =>
      /\ t.puts = 1
      /\ IsHandler(t.op) => (t.out.res = "500" /\ ~t.out.served)

\* a handler fetched the object, the write of part of it failed, and it
\* answered 500
C17_Witness ==
  \E p \in Procs :
    LET t == th[p] IN
    /\ HandlerDone(t) /\ t.remote = "ok"
    /\ t.out.exc = "OSError" /\ t.out.res = "500"
    /\ is_file(files, cache_file(t))
    /\ files[cache_file(t)].content # t.data

\* a store by p ends in failure at this step
StoreFails(p) ==
  /\ th[p].pc \in {"w_open", "w_write"}
  /\ th'[p].pc = "done"
  /\ ~StoreReturned(th'[p])

\* C21: an entry comes into existence only through a store that completes
\* successfully (a file appears only at a store's write, and a store that
\* fails leaves no entry that was not there before it); an entry disappears
\* only through a lookup that found it expired, an eviction by a store, or
\* purge_all; stats and a lookup that finds no file change nothing.
C21_EntryLifecycle ==
  [][/\ \A f \in Locs :
          /\ (~files[f].exists /\ files'[f].exists) =>
               \E p \in Procs :
                 th[p].pc = "w_open" /\ th[p].puts = 1 /\ cache_file(th[p]) = f
          /\ (files[f].exists /\ ~files'[f].exists) =>
               \E p \in Procs :
                 \/ /\ th[p].pc = "get_unlink" /\ cache_file(th[p]) = f
                    /\ th[p].file_age > ttl_seconds
                 \/ th[p].pc = "es_unlink" /\ th[p].puts = 1
                 \/ th[p].pc = "clear_unlink" /\ th[p].op = "clear"
     /\ \A p \in Procs :
          /\ (th[p].op = "get_stats" \/ th[p].pc = "get_exists") =>
               files' = files
          /\ StoreFails(p) =>
               (files'[cache_file(th[p])].exists =>
                  IF th[p].pc = "w_open"
                  THEN files[cache_file(th[p])].exists
                  ELSE th[p].old.exists)]_vars

-----------------------------------------------------------------------------
(* Properties of a response sent while another call runs (checked under    *)
(* ServeSpec).                                                             *)

\* C26: the location a fetch returned (from a hit or from a fresh store)
\* still refers to an existing file with the bytes it had at the return when
\* the response reads it, whatever eviction, expiry lookup or purge_all ran
\* in between.
C26_ReturnedLocationIsServable ==
  \A p \in Procs :
    (HandlerDone(th[p]) /\ th[p].out.res \in {"sent", "gone"})
      => (th[p].out.res = "sent" /\ ~th[p].out.torn)

-----------------------------------------------------------------------------
(* Properties of entries of different (key, extension) pairs (checked      *)
(* under IsoSpec).                                                         *)

\* C27: entries are isolated by (key, extension): a step of a store leaves
\* every entry of another pair as it was, content and modification time, or
\* evicts it; and a lookup hits only an entry stored under its own pair, so
\* the lookup with the extension under which nothing was stored never hits.
C27_EntriesAreIsolated ==
  [][\A p \in Procs :
       /\ \A f \in Locs :
            (/\ th[p].puts = 1 /\ th'[p] # th[p]
             /\ f # CacheFile(th[p].file_path, th[p].extension)
             /\ files[f].exists) =>
              \/ files'[f] = files[f]
              \/ ~files'[f].exists /\ th[p].pc = "es_unlink"
       /\ (th'[p].pc = "done" /\ th'[p].op = "get"
             /\ th'[p].out.res = "hit") =>
            /\ <<th'[p].file_path, th'[p].extension>> \in SeqRequests
            /\ \E d \in StorePayloads : th'[p].out.seen = d]_vars

\* the lookup with another extension has missed while the entry stored under
\* the same key is resident, right after a store to that key
C27_Witness ==
  \E p \in Procs :
    LET t == th[p] IN
    /\ t.pc = "done" /\ t.op = "get" /\ t.out.res = "miss"
    /\ t.extension = "" /\ t.file_age = -1
    /\ last.op = "put" /\ last.res = "stored"
    /\ last.file_path = t.file_path /\ last.extension = ".pdf"
    /\ is_file(files, CacheFile(t.file_path, ".pdf"))
    /\ Cardinality(Resident(files)) = 2

====
